---- MODULE Spec2Model ----
(***************************************************************************)
(* A model of the grusterylist catalog (src/src/groceries.rs) and of the   *)
(* list-input helper (src/src/lib.rs).                                     *)
(*                                                                         *)
(* Strings are sequences of one-character strings, so that trimming,       *)
(* lower-casing, splitting on commas and substring search are computed.    *)
(***************************************************************************)
EXTENDS Integers, Sequences, FiniteSets, TLC

VARIABLES
    sections,    \* Groceries.sections
    collection,  \* Groceries.collection
    recipes,     \* Groceries.recipes
    pc,          \* "prompt" while check_recipe_ingredients waits for input
    pending,     \* the ingredients check_recipe_ingredients has yet to visit
    before,      \* the collection as the last check_recipe_ingredients or
                 \* add_recipe call found it; <<>> after other calls
    prompts,     \* the section prompts the current call has printed
    file,        \* the JSON document in the file, or NoFile
    shopping_list, \* the ShoppingList: its recipes, checklist and items
    call,        \* the last operation called, with its arguments
    ret          \* what it returned

vars == <<sections, collection, recipes, pc, pending, before, prompts, file, shopping_list,
          call, ret>>

(***************************************************************************)
(* Bounds of the model.                                                    *)
(***************************************************************************)
MaxItems == 2
MaxRecipes == 2
MaxPrompts == 3
MaxTextLen == 5
MaxSections == 2
MaxList == 2
MaxRecipeItems == 2

(***************************************************************************)
(* Strings.                                                                *)
(***************************************************************************)
Alphabet == {"a", "b", "A", " ", ","}

RECURSIVE StrsUpTo(_)
StrsUpTo(n) ==
    IF n = 0 THEN {<<>>}
    ELSE LET S == StrsUpTo(n - 1)
         IN  S \cup {Append(s, c) : s \in {t \in S : Len(t) = n - 1}, c \in Alphabet}

LowerChar(c) == IF c = "A" THEN "a" ELSE IF c = "B" THEN "b" ELSE c

to_lowercase(s) == [i \in 1..Len(s) |-> LowerChar(s[i])]

RECURSIVE trim_start(_)
trim_start(s) ==
    IF s # <<>> /\ Head(s) = " " THEN trim_start(Tail(s)) ELSE s

RECURSIVE trim_end(_)
trim_end(s) ==
    IF s # <<>> /\ s[Len(s)] = " " THEN trim_end(SubSeq(s, 1, Len(s) - 1)) ELSE s

trim(s) == trim_end(trim_start(s))

\* str::split(','): the pieces between the commas; n commas give n + 1
\* pieces, the empty ones included.
RECURSIVE split(_)
split(s) ==
    IF \A i \in 1..Len(s) : s[i] # ","
    THEN <<s>>
    ELSE LET k == CHOOSE i \in 1..Len(s) :
                      s[i] = "," /\ \A j \in 1..(i - 1) : s[j] # ","
         IN  <<SubSeq(s, 1, k - 1)>> \o split(SubSeq(s, k + 1, Len(s)))

\* str::contains: sub occurs in s as a contiguous run of characters.
contains(s, sub) ==
    \E i \in 0..(Len(s) - Len(sub)) : SubSeq(s, i + 1, i + Len(sub)) = sub

InSeq(x, s) == \E i \in 1..Len(s) : s[i] = x

\* Vec::iter().position: the first index holding x, and 0 for None.
position(s, x) ==
    IF InSeq(x, s) THEN CHOOSE i \in 1..Len(s) : s[i] = x /\ \A j \in 1..(i - 1) : s[j] # x
    ELSE 0

\* Vec::remove(i)
remove(s, i) == SubSeq(s, 1, i - 1) \o SubSeq(s, i + 1, Len(s))

(***************************************************************************)
(* helpers::list_input: the phrases of the input, trimmed and lower-cased, *)
(* each pushed on items_list unless items_list already holds it.           *)
(***************************************************************************)
input_list(input) ==
    LET parts == split(input)
    IN  [i \in 1..Len(parts) |-> trim(to_lowercase(parts[i]))]

RECURSIVE PushAllNoCheck(_, _)
PushAllNoCheck(items_list, new) ==
    IF new = <<>> THEN items_list
    ELSE PushAllNoCheck(Append(items_list, Head(new)), Tail(new))

RECURSIVE PushAbsent(_, _)
PushAbsent(items_list, new) ==
    IF new = <<>> THEN items_list
    ELSE PushAbsent(IF InSeq(Head(new), items_list) THEN items_list
                    ELSE Append(items_list, Head(new)),
                    Tail(new))

list_input_nodedup(items_list, input) == PushAllNoCheck(items_list, input_list(input))

list_input(items_list, input) == PushAbsent(items_list, input_list(input))

(***************************************************************************)
(* Ingredients::from_input_string: the identifiers of an ingredient text.  *)
(* Empty phrases are dropped; a text with no identifier is EmptyInput.     *)
(***************************************************************************)
NonEmpty(s) == s # <<>>

from_input_string(text) ==
    LET ids == PushAbsent(<<>>, SelectSeq(input_list(text), NonEmpty))
    IN  IF ids = <<>> THEN [status |-> "EmptyInput", value |-> <<>>]
        ELSE [status |-> "Ok", value |-> ids]

(***************************************************************************)
(* The values the model draws its inputs from.                             *)
(***************************************************************************)
fresh == <<"f", "r", "e", "s", "h">>
pantry == <<"p", "a", "n", "t", "r", "y">>
protein == <<"p", "r", "o", "t", "e", "i", "n">>
dairy == <<"d", "a", "i", "r", "y">>
freezer == <<"f", "r", "e", "e", "z", "e", "r">>

RecipeNames == {<<"r">>, <<"s">>}

\* Item names: "a", "b", and "A", which no parsed identifier equals.
ItemNames == {<<"a">>, <<"b">>, <<"A">>}

\* Ingredient texts: "a", "b, A" and the blank " ,".
Texts == {<<"a">>, <<"b", ",", " ", "A">>, <<" ", ",">>}

\* What get_user_input can return: the five choices, and another line.
AllUserInputs == {"1", "2", "3", "4", "5", "x"}

\* The lines the user enters in the runs of the whole catalog.
UserInputs == {"1", "4", "x"}

Item(n, s, f, r) ==
    [name |-> n, section |-> s, is_recipe_ingredient |-> f, recipes |-> r]

\* The items add_item is called with: a plain item, a linked one, one that
\* lists a recipe twice, and one with an upper-case name that is flagged
\* without any recipe.
ItemInputs ==
    { Item(<<"a">>, fresh, FALSE, <<>>),
      Item(<<"a">>, dairy, TRUE, <<<<"r">>>>),
      Item(<<"b">>, fresh, TRUE, <<<<"r">>, <<"r">>>>),
      Item(<<"A">>, dairy, TRUE, <<>>) }

\* The items_list arguments of list_input.
ItemLists == {<<>>, <<<<"a">>>>, <<<<"b">>, <<"a">>>>}

\* The result of from_input_string on each text the model calls it with.
Parsed == [t \in Texts \cup StrsUpTo(MaxTextLen) |-> from_input_string(t)]

\* ShoppingList::new(): the three lists of a new shopping list.
NewShoppingList == [recipes |-> <<>>, checklist |-> <<>>, items |-> <<>>]

\* No file at the path.
NoFile == [kind |-> "none", val |-> <<>>]

Ok == [status |-> "Ok", value |-> <<>>]
Err(e) == [status |-> e, value |-> <<>>]
Call(op, name, text) == [op |-> op, name |-> name, text |-> text, list |-> <<>>]

(***************************************************************************)
(* Groceries::new_initialized                                              *)
(***************************************************************************)
Init ==
    /\ sections = <<>>
    /\ collection = <<>>
    /\ recipes = <<>>
    /\ pc = "idle"
    /\ pending = <<>>
    /\ before = <<>>
    /\ file = NoFile
    /\ shopping_list = NewShoppingList
    /\ prompts = 0
    /\ call = Call("new_initialized", <<>>, <<>>)
    /\ ret = Ok

Names(coll) == [i \in 1..Len(coll) |-> coll[i].name]

(***************************************************************************)
(* Groceries::add_item                                                     *)
(***************************************************************************)
\* add_item that inserts at the front of the collection.
add_item_front(coll, item) == <<item>> \o coll

add_item(coll, item) == Append(coll, item)

AddItem(item) ==
    /\ pc = "idle"
    /\ Len(collection) < MaxItems
    /\ collection' = add_item(collection, item)
    /\ call' = Call("add_item", item.name, <<>>)
    /\ ret' = Ok
    /\ prompts' = 0
    /\ before' = <<>>
    /\ UNCHANGED <<file, shopping_list, sections, recipes, pc, pending>>

(***************************************************************************)
(* Groceries::delete_item                                                  *)
(***************************************************************************)
delete_item_all(coll, name) ==
    LET keep(x) == x.name # name IN SelectSeq(coll, keep)

delete_item(coll, name) ==
    LET i == position(Names(coll), name)
    IN  IF i # 0 THEN remove(coll, i) ELSE coll

\* The ItemNotFound of a miss is dropped by the if let: Ok(()) either way.
delete_item_result(coll, name) == Ok

DeleteItem(name) ==
    /\ pc = "idle"
    /\ collection' = delete_item(collection, name)
    /\ call' = Call("delete_item", name, <<>>)
    /\ ret' = delete_item_result(collection, name)
    /\ prompts' = 0
    /\ before' = <<>>
    /\ UNCHANGED <<file, shopping_list, sections, recipes, pc, pending>>

(***************************************************************************)
(* Groceries::add_recipe                                                   *)
(***************************************************************************)
add_recipe_noflag(coll, recipe, ingredients) ==
    [i \in 1..Len(coll) |->
        IF InSeq(coll[i].name, ingredients)
        THEN [coll[i] EXCEPT !.recipes = Append(@, recipe)]
        ELSE coll[i]]

\* add_recipe that matches an item's name whatever its case.
add_recipe_anycase(coll, recipe, ingredients) ==
    [i \in 1..Len(coll) |->
        IF InSeq(to_lowercase(coll[i].name), ingredients)
        THEN [coll[i] EXCEPT !.is_recipe_ingredient = TRUE,
                             !.recipes = Append(@, recipe)]
        ELSE coll[i]]

\* add_recipe that links an item to a recipe once only.
add_recipe_once(coll, recipe, ingredients) ==
    [i \in 1..Len(coll) |->
        IF InSeq(coll[i].name, ingredients) /\ ~InSeq(recipe, coll[i].recipes)
        THEN [coll[i] EXCEPT !.is_recipe_ingredient = TRUE,
                             !.recipes = Append(@, recipe)]
        ELSE coll[i]]

add_recipe_items(coll, recipe, ingredients) ==
    [i \in 1..Len(coll) |->
        IF InSeq(coll[i].name, ingredients)
        THEN [coll[i] EXCEPT !.is_recipe_ingredient = TRUE,
                             !.recipes = Append(@, recipe)]
        ELSE coll[i]]

\* add_recipe with the parser's error dropped instead of returned.
AddRecipeDropsError(name, text) ==
    LET parsed == Parsed[text]
    IN  /\ pc = "idle"
        /\ parsed.status = "Ok" => Len(recipes) < MaxRecipes
        /\ \A i \in 1..Len(collection) :
              InSeq(collection[i].name, parsed.value) => Len(collection[i].recipes) < MaxRecipes
        /\ call' = Call("add_recipe", name, text)
        /\ IF parsed.status # "Ok"
           THEN /\ ret' = Ok
                /\ UNCHANGED <<collection, recipes>>
           ELSE /\ collection' = add_recipe_items(collection, name, parsed.value)
                /\ recipes' = Append(recipes, name)
                /\ ret' = Ok
        /\ prompts' = 0
        /\ before' = collection
        /\ UNCHANGED <<file, shopping_list, sections, pc, pending>>

\* add_recipe with the recipe entered in the list before the text is parsed.
AddRecipePushesFirst(name, text) ==
    LET parsed == Parsed[text]
    IN  /\ pc = "idle"
        /\ Len(recipes) < MaxRecipes
        /\ \A i \in 1..Len(collection) :
              InSeq(collection[i].name, parsed.value) => Len(collection[i].recipes) < MaxRecipes
        /\ call' = Call("add_recipe", name, text)
        /\ recipes' = Append(recipes, name)
        /\ IF parsed.status # "Ok"
           THEN /\ ret' = Err(parsed.status)
                /\ UNCHANGED collection
           ELSE /\ collection' = add_recipe_items(collection, name, parsed.value)
                /\ ret' = Ok
        /\ prompts' = 0
        /\ before' = collection
        /\ UNCHANGED <<file, shopping_list, sections, pc, pending>>

\* add_recipe: the text is parsed first, and its error ends the call.
AddRecipe(name, text) ==
    LET parsed == Parsed[text]
    IN  /\ pc = "idle"
        /\ parsed.status = "Ok" => Len(recipes) < MaxRecipes
        /\ \A i \in 1..Len(collection) :
              InSeq(collection[i].name, parsed.value) => Len(collection[i].recipes) < MaxRecipes
        /\ call' = Call("add_recipe", name, text)
        /\ IF parsed.status # "Ok"
           THEN /\ ret' = Err(parsed.status)
                /\ UNCHANGED <<collection, recipes>>
           ELSE /\ collection' = add_recipe_items(collection, name, parsed.value)
                /\ recipes' = Append(recipes, name)
                /\ ret' = Ok
        /\ prompts' = 0
        /\ before' = collection
        /\ UNCHANGED <<file, shopping_list, sections, pc, pending>>

(***************************************************************************)
(* Groceries::delete_recipe                                                *)
(***************************************************************************)
\* delete_recipe that leaves the recipe list as it is.
delete_recipe_list_kept(recs, name) == recs

delete_recipe_list(recs, name) ==
    LET i == position(recs, name)
    IN  IF i # 0 THEN remove(recs, i) ELSE recs

delete_recipe_keepflag(coll, name) ==
    [k \in 1..Len(coll) |->
        LET i == position(coll[k].recipes, name)
        IN  IF i # 0 THEN [coll[k] EXCEPT !.recipes = remove(@, i)] ELSE coll[k]]

\* delete_recipe that empties the recipes of every item the recipe used.
delete_recipe_clears(coll, name) ==
    [k \in 1..Len(coll) |->
        IF position(coll[k].recipes, name) # 0
        THEN [coll[k] EXCEPT !.recipes = <<>>, !.is_recipe_ingredient = FALSE]
        ELSE coll[k]]

delete_recipe_items(coll, name) ==
    [k \in 1..Len(coll) |->
        LET i == position(coll[k].recipes, name)
            left == remove(coll[k].recipes, i)
        IN  IF i # 0
            THEN [coll[k] EXCEPT !.recipes = left,
                                 !.is_recipe_ingredient = IF left = <<>> THEN FALSE ELSE @]
            ELSE coll[k]]

\* The ItemNotFound of a miss is dropped by the if let: Ok(()) either way.
delete_recipe_result(recs, name) == Ok

DeleteRecipe(name) ==
    /\ pc = "idle"
    /\ recipes' = delete_recipe_list(recipes, name)
    /\ collection' = delete_recipe_items(collection, name)
    /\ call' = Call("delete_recipe", name, <<>>)
    /\ ret' = delete_recipe_result(recipes, name)
    /\ prompts' = 0
    /\ before' = <<>>
    /\ UNCHANGED <<file, shopping_list, sections, pc, pending>>

(***************************************************************************)
(* Groceries::recipe_ingredients                                           *)
(***************************************************************************)
\* recipe_ingredients that stops at the first item of the recipe.
recipe_ingredients_first(coll, recipe) ==
    LET found == SelectSeq(coll, LAMBDA item : InSeq(recipe, item.recipes))
    IN  IF found = <<>> THEN <<>> ELSE <<Head(found)>>

recipe_ingredients(coll, recipe) ==
    SelectSeq(coll, LAMBDA item : InSeq(recipe, item.recipes))

(***************************************************************************)
(* Groceries::check_recipe_ingredients, one step per read of the user's    *)
(* input: the call blocks in get_user_input while pc = "prompt".           *)
(***************************************************************************)
\* GroceriesItem::new_initialized
new_initialized(name, section) == Item(name, section, FALSE, <<>>)

\* The for loop with the test for an existing item left out.
skip_none(ingredients, coll) == ingredients

\* The for loop up to the next ingredient that names no item.
RECURSIVE skip_present(_, _)
skip_present(ingredients, coll) ==
    IF ingredients # <<>> /\ InSeq(Head(ingredients), Names(coll))
    THEN skip_present(Tail(ingredients), coll)
    ELSE ingredients

Absent(ingredients, coll) ==
    {i \in 1..Len(ingredients) : ~InSeq(ingredients[i], Names(coll))}

\* The match with every input sent back to "re-enter".
section_input_never(input) == <<>>

\* The match with any other input taken as the last option.
section_input_lenient(input) ==
    CASE input = "1" -> fresh
      [] input = "2" -> pantry
      [] input = "3" -> protein
      [] input = "4" -> dairy
      [] OTHER -> freezer

\* The match on the input: the chosen section, or <<>> for "re-enter".
section_input(input) ==
    CASE input = "1" -> fresh
      [] input = "2" -> pantry
      [] input = "3" -> protein
      [] input = "4" -> dairy
      [] input = "5" -> freezer
      [] OTHER -> <<>>

CheckRecipeIngredients(text) ==
    LET parsed == Parsed[text]
        rest == skip_present(parsed.value, collection)
    IN  /\ pc = "idle"
        /\ Len(collection) + Cardinality(Absent(parsed.value, collection)) <= MaxItems
        /\ call' = Call("check_recipe_ingredients", <<>>, text)
        /\ before' = collection
        /\ IF parsed.status # "Ok"
           THEN /\ ret' = Err(parsed.status)
                /\ prompts' = 0
                /\ UNCHANGED <<pc, pending>>
           ELSE IF rest = <<>>
           THEN /\ ret' = Ok
                /\ prompts' = 0
                /\ UNCHANGED <<pc, pending>>
           ELSE /\ ret' = Err("Pending")
                /\ pc' = "prompt"
                /\ pending' = rest
                /\ prompts' = 1
        /\ UNCHANGED <<file, shopping_list, sections, collection, recipes>>

\* get_user_input returns a line.
GetUserInput(input) ==
    LET section == section_input(input)
        added == add_item(collection, new_initialized(Head(pending), section))
        rest == skip_present(Tail(pending), added)
    IN  /\ pc = "prompt"
        /\ IF section = <<>>
           THEN /\ prompts < MaxPrompts
                /\ prompts' = prompts + 1
                /\ UNCHANGED <<collection, pc, pending, ret>>
           ELSE /\ collection' = added
                /\ IF rest = <<>>
                   THEN /\ pc' = "idle"
                        /\ pending' = <<>>
                        /\ ret' = Ok
                        /\ UNCHANGED prompts
                   ELSE /\ pending' = rest
                        /\ prompts' = prompts + 1
                        /\ UNCHANGED <<pc, ret>>
        /\ UNCHANGED <<file, shopping_list, sections, recipes, before, call>>

\* get_user_input returns an error, which the ? operator returns at once.
GetUserInputFails ==
    /\ pc = "prompt"
    /\ pc' = "idle"
    /\ pending' = <<>>
    /\ ret' = Err("InputError")
    /\ UNCHANGED <<file, shopping_list, sections, collection, recipes, before, prompts, call>>

(***************************************************************************)
(* The catalog under every sequence of its operations.                     *)
(***************************************************************************)
Next ==
    \/ \E item \in ItemInputs : AddItem(item)
    \/ \E name \in ItemNames : DeleteItem(name)
    \/ \E name \in RecipeNames, text \in Texts : AddRecipe(name, text)
    \/ \E name \in RecipeNames : DeleteRecipe(name)
    \/ \E text \in Texts : CheckRecipeIngredients(text)
    \/ \E input \in UserInputs : GetUserInput(input)
    \/ GetUserInputFails

Spec == Init /\ [][Next]_vars

(***************************************************************************)
(* The catalog when add_item is only given items whose flag agrees with    *)
(* their recipes.                                                          *)
(***************************************************************************)
FlagAgrees(item) == item.is_recipe_ingredient <=> (item.recipes # <<>>)

NextI3 ==
    \/ \E item \in {x \in ItemInputs : FlagAgrees(x)} : AddItem(item)
    \/ \E name \in ItemNames : DeleteItem(name)
    \/ \E name \in RecipeNames, text \in Texts : AddRecipe(name, text)
    \/ \E name \in RecipeNames : DeleteRecipe(name)
    \/ \E text \in Texts : CheckRecipeIngredients(text)
    \/ \E input \in UserInputs : GetUserInput(input)
    \/ GetUserInputFails

SpecI3 == Init /\ [][NextI3]_vars

(***************************************************************************)
(* The parser and list_input on every text of up to MaxTextLen characters. *)
(***************************************************************************)
ParseInit ==
    /\ sections = <<>>
    /\ collection = <<>>
    /\ recipes = <<>>
    /\ pc = "idle"
    /\ pending = <<>>
    /\ before = <<>>
    /\ file = NoFile
    /\ shopping_list = NewShoppingList
    /\ prompts = 0
    /\ \E text \in StrsUpTo(MaxTextLen) : call = Call("input", <<>>, text)
    /\ ret = Ok

FromInputString ==
    /\ call.op = "input"
    /\ call' = [call EXCEPT !.op = "from_input_string"]
    /\ ret' = from_input_string(call.text)
    /\ UNCHANGED <<file, shopping_list, sections, collection, recipes, pc, pending, before, prompts>>

ListInput(items_list) ==
    /\ call.op = "input"
    /\ call' = [call EXCEPT !.op = "list_input", !.list = items_list]
    /\ ret' = [status |-> "Ok", value |-> list_input(items_list, call.text)]
    /\ UNCHANGED <<file, shopping_list, sections, collection, recipes, pc, pending, before, prompts>>

\* add_recipe and check_recipe_ingredients on the new catalog, with the text.
AddRecipeInput(name) == call.op = "input" /\ AddRecipe(name, call.text)

CheckRecipeIngredientsInput == call.op = "input" /\ CheckRecipeIngredients(call.text)

ParseNext ==
    \/ FromInputString
    \/ \E items_list \in ItemLists : ListInput(items_list)
    \/ \E name \in RecipeNames : AddRecipeInput(name)
    \/ CheckRecipeIngredientsInput

ParseSpec == ParseInit /\ [][ParseNext]_vars

(***************************************************************************)
(* serde_json, on JSON values rather than on characters: a value is a      *)
(* string, a boolean, an array of values or an object, whose members are   *)
(* <<key, value>> pairs in the order written.                              *)
(***************************************************************************)
JString(s) == [kind |-> "string", val |-> s]
JBool(b) == [kind |-> "bool", val |-> b]
JArray(elems) == [kind |-> "array", val |-> elems]
JObject(members) == [kind |-> "object", val |-> members]

\* Serialize of a Vec of newtype Strings: an array of strings.
ser_strings(strs) == JArray([i \in 1..Len(strs) |-> JString(strs[i])])

\* Serialize of a GroceriesItem, with the members the test document shows.
ser_item(x) ==
    JObject(<< <<"name", JString(x.name)>>,
               <<"section", JString(x.section)>>,
               <<"is_recipe_ingredient", JBool(x.is_recipe_ingredient)>>,
               <<"recipes", ser_strings(x.recipes)>> >>)

\* serde_json::to_string(&self) with the recipes member left out.
to_string_norecipes(g) ==
    JObject(<< <<"sections", ser_strings(g.sections)>>,
               <<"collection", JArray([i \in 1..Len(g.collection) |-> ser_item(g.collection[i])])>> >>)

\* serde_json::to_string(&self) of a Groceries: its fields, in their order.
to_string(g) ==
    JObject(<< <<"sections", ser_strings(g.sections)>>,
               <<"collection", JArray([i \in 1..Len(g.collection) |-> ser_item(g.collection[i])])>>,
               <<"recipes", ser_strings(g.recipes)>> >>)

\* A derived Deserialize of a struct takes an object that has each field
\* exactly once (other keys are ignored), or an array of the fields in order.
is_struct(j, fields) ==
    \/ /\ j.kind = "object"
       /\ \A k \in 1..Len(fields) :
             Cardinality({m \in 1..Len(j.val) : j.val[m][1] = fields[k]}) = 1
    \/ /\ j.kind = "array"
       /\ Len(j.val) = Len(fields)

\* The value of field number k of such a struct.
field(j, fields, k) ==
    IF j.kind = "object"
    THEN j.val[CHOOSE m \in 1..Len(j.val) : j.val[m][1] = fields[k]][2]
    ELSE j.val[k]

is_strings(j) == j.kind = "array" /\ \A i \in 1..Len(j.val) : j.val[i].kind = "string"

de_strings(j) == [i \in 1..Len(j.val) |-> j.val[i].val]

ItemFields == <<"name", "section", "is_recipe_ingredient", "recipes">>

is_item(j) ==
    /\ is_struct(j, ItemFields)
    /\ field(j, ItemFields, 1).kind = "string"
    /\ field(j, ItemFields, 2).kind = "string"
    /\ field(j, ItemFields, 3).kind = "bool"
    /\ is_strings(field(j, ItemFields, 4))

de_item(j) ==
    Item(field(j, ItemFields, 1).val, field(j, ItemFields, 2).val,
         field(j, ItemFields, 3).val, de_strings(field(j, ItemFields, 4)))

GroceriesFields == <<"sections", "collection", "recipes">>

is_groceries(j) ==
    /\ is_struct(j, GroceriesFields)
    /\ is_strings(field(j, GroceriesFields, 1))
    /\ field(j, GroceriesFields, 2).kind = "array"
    /\ \A i \in 1..Len(field(j, GroceriesFields, 2).val) :
          is_item(field(j, GroceriesFields, 2).val[i])
    /\ is_strings(field(j, GroceriesFields, 3))

\* The catalog as a value: the three fields of Groceries.
Catalog(secs, coll, recs) == [sections |-> secs, collection |-> coll, recipes |-> recs]

\* Groceries::from_path: read(path)?, then serde_json::from_reader(..)?
from_path(f) ==
    IF f = NoFile
    THEN Err("PathError")
    ELSE IF ~is_groceries(f)
    THEN Err("DeserializingError")
    ELSE [status |-> "Ok",
          value |-> Catalog(de_strings(field(f, GroceriesFields, 1)),
                            [i \in 1..Len(field(f, GroceriesFields, 2).val) |->
                                 de_item(field(f, GroceriesFields, 2).val[i])],
                            de_strings(field(f, GroceriesFields, 3)))]

(***************************************************************************)
(* The read-only views of a loaded catalog: Groceries::items and           *)
(* Groceries::get_item_matches.  Sections only come with a catalog read    *)
(* from a file, so the catalog here is any one that from_path can return.  *)
(***************************************************************************)
SectionNames == {fresh, dairy}

SectionLists ==
    UNION {[1..n -> SectionNames] : n \in 0..MaxSections}

\* Items whose section value equals a section name, holds two of them, is a
\* proper part of one, or has nothing of either.
ViewItems ==
    { Item(<<"a">>, fresh, FALSE, <<>>),
      Item(<<"A">>, fresh \o <<" ">> \o dairy, TRUE, <<<<"r">>>>),
      Item(<<"a", "b">>, <<"f", "r">>, FALSE, <<>>),
      Item(<<"b">>, freezer, FALSE, <<>>) }

ViewCollections ==
    UNION {[1..n -> ViewItems] : n \in 0..MaxItems}

Fragments == {<<>>, <<"a">>, <<"A">>, <<"b">>, <<"a", "b">>, <<"b", "a">>}

\* The filter with the two sides exchanged: sec.0.contains(&x.section.0)
in_section_reversed(x, sec) == contains(sec, x.section)

\* The filter of items(): x.section.0.contains(&sec.0)
in_section(x, sec) == contains(x.section, sec)

\* items() with the two loops exchanged: item by item, section by section.
RECURSIVE items_by_item(_, _)
items_by_item(secs, coll) ==
    IF coll = <<>>
    THEN <<>>
    ELSE [s \in 1..Len(SelectSeq(secs, LAMBDA sec : in_section(Head(coll), sec))) |->
              Head(coll)] \o items_by_item(secs, Tail(coll))

\* items(): flat_map over the sections of the filtered collection.
RECURSIVE items(_, _)
items(secs, coll) ==
    IF secs = <<>>
    THEN <<>>
    ELSE SelectSeq(coll, LAMBDA x : in_section(x, Head(secs))) \o items(Tail(secs), coll)

\* GroceriesItem::matches
matches(item, name) == contains(item.name, name)

\* get_item_matches that keeps the items of exactly that name.
get_item_matches_exact(coll, name) == SelectSeq(coll, LAMBDA item : item.name = name)

get_item_matches(coll, name) == SelectSeq(coll, LAMBDA item : matches(item, name))

ViewInit ==
    /\ sections \in SectionLists
    /\ collection \in ViewCollections
    /\ recipes = <<>>
    /\ pc = "idle"
    /\ pending = <<>>
    /\ before = <<>>
    /\ file = to_string(Catalog(sections, collection, recipes))
    /\ shopping_list = NewShoppingList
    /\ prompts = 0
    /\ call = Call("from_path", <<>>, <<>>)
    /\ ret = Ok

Items ==
    /\ pc = "idle"
    /\ call' = Call("items", <<>>, <<>>)
    /\ ret' = [status |-> "Ok", value |-> items(sections, collection)]
    /\ UNCHANGED <<file, shopping_list, sections, collection, recipes, pc, pending, before, prompts>>

GetItemMatches(name) ==
    /\ pc = "idle"
    /\ call' = Call("get_item_matches", name, <<>>)
    /\ ret' = [status |-> "Ok", value |-> get_item_matches(collection, name)]
    /\ UNCHANGED <<file, shopping_list, sections, collection, recipes, pc, pending, before, prompts>>

ViewNext ==
    \/ Items
    \/ \E name \in Fragments : GetItemMatches(name)

ViewSpec == ViewInit /\ [][ViewNext]_vars

(***************************************************************************)
(* Groceries::save and Groceries::from_path, with the file between them.   *)
(***************************************************************************)
\* Files found at the path: none, a catalog with sections, the three fields
\* as an array, a document with the sections field only, an empty array.
InitialFiles ==
    { NoFile,
      to_string(Catalog(<<fresh, dairy>>,
                        <<Item(<<"b">>, dairy, TRUE, <<<<"r">>, <<"s">>>>)>>,
                        <<<<"r">>, <<"s">>>>)),
      JArray(<<ser_strings(<<fresh>>), JArray(<<>>), ser_strings(<<>>)>>),
      JObject(<< <<"sections", ser_strings(<<fresh>>)>> >>),
      JArray(<<>>) }

PersistInit ==
    /\ sections = <<>>
    /\ collection = <<>>
    /\ recipes = <<>>
    /\ pc = "idle"
    /\ pending = <<>>
    /\ before = <<>>
    /\ file \in InitialFiles
    /\ shopping_list = NewShoppingList
    /\ prompts = 0
    /\ call = Call("new_initialized", <<>>, <<>>)
    /\ ret = Ok

\* let g = Groceries::from_path(path)?
FromPath ==
    LET loaded == from_path(file)
    IN  /\ pc = "idle"
        /\ call' = Call("from_path", <<>>, <<>>)
        /\ IF loaded.status = "Ok"
           THEN /\ sections' = loaded.value.sections
                /\ collection' = loaded.value.collection
                /\ recipes' = loaded.value.recipes
                /\ ret' = Ok
           ELSE /\ ret' = Err(loaded.status)
                /\ UNCHANGED <<sections, collection, recipes>>
        /\ prompts' = 0
        /\ before' = <<>>
        /\ UNCHANGED <<file, shopping_list, pc, pending>>

\* g.save(path)
Save ==
    /\ pc = "idle"
    /\ call' = Call("save", <<>>, <<>>)
    /\ file' = to_string(Catalog(sections, collection, recipes))
    /\ ret' = Ok
    /\ prompts' = 0
    /\ before' = <<>>
    /\ UNCHANGED <<shopping_list, sections, collection, recipes, pc, pending>>

PersistNext ==
    \/ FromPath
    \/ Save
    \/ \E item \in ViewItems : AddItem(item)

PersistSpec == PersistInit /\ [][PersistNext]_vars

(***************************************************************************)
(* check_recipe_ingredients on a new catalog, with every answer the user   *)
(* can give to the section prompt.                                         *)
(***************************************************************************)
PromptNext ==
    \/ \E text \in Texts : CheckRecipeIngredients(text)
    \/ \E input \in AllUserInputs : GetUserInput(input)
    \/ GetUserInputFails

PromptSpec == Init /\ [][PromptNext]_vars

(***************************************************************************)
(* The same call when reading the input never fails and the user, asked    *)
(* again and again, does in the end enter one of the five choices.         *)
(***************************************************************************)
ValidInputs == {input \in AllUserInputs : section_input(input) # <<>>}

GetValidInput == \E input \in ValidInputs : GetUserInput(input)

LiveNext ==
    \/ \E text \in Texts : CheckRecipeIngredients(text)
    \/ \E input \in AllUserInputs : GetUserInput(input)

LiveSpec == Init /\ [][LiveNext]_vars /\ WF_vars(GetValidInput)

(***************************************************************************)
(* The shopping list of src/src/lib.rs (mod list): the functions that add  *)
(* to ShoppingList.items, with the keys the user answers the prompts with. *)
(***************************************************************************)
\* The names of recipe ingredients and of the items of a groceries section.
ListNames == {<<"a">>, <<"A">>, <<"b">>}

ListItems == UNION {[1..n -> ListNames] : n \in 0..MaxRecipeItems}

\* What input() returns at a prompt: y, c, a, s, or another key.
Keys == {"y", "c", "a", "s", "n"}

\* One answer for each ingredient or item that can be asked about.
Answers(asked) == [1..Len(asked) -> Keys]

\* list::add_ingredient_to_list
add_ingredient_to_list(sl, ingredient) ==
    IF ~InSeq(to_lowercase(ingredient), sl.items)
    THEN [sl EXCEPT !.items = Append(@, to_lowercase(ingredient))]
    ELSE sl

\* list::add_all_ingredients_to_list: the test is on the lower-cased name,
\* the push is of the ingredient as it is.
RECURSIVE add_all_ingredients_to_list(_, _)
add_all_ingredients_to_list(sl, recipe_items) ==
    IF recipe_items = <<>>
    THEN sl
    ELSE add_all_ingredients_to_list(
             IF ~InSeq(to_lowercase(Head(recipe_items)), sl.items)
             THEN [sl EXCEPT !.items = Append(@, Head(recipe_items))]
             ELSE sl,
             Tail(recipe_items))

\* list::add_ingredient_to_checklist
add_ingredient_to_checklist(sl, ingredient) ==
    [sl EXCEPT !.checklist = Append(@, to_lowercase(ingredient))]

\* The for loop of add_recipe_to_list over the ingredients left to ask about;
\* "a" hands the whole of recipe_items to add_all_ingredients_to_list.
RECURSIVE add_recipe_loop(_, _, _, _)
add_recipe_loop(sl, recipe_items, rest, answers) ==
    IF rest = <<>>
    THEN sl
    ELSE CASE Head(answers) = "y" ->
                  add_recipe_loop(add_ingredient_to_list(sl, Head(rest)),
                                  recipe_items, Tail(rest), Tail(answers))
           [] Head(answers) = "c" ->
                  add_recipe_loop(add_ingredient_to_checklist(sl, Head(rest)),
                                  recipe_items, Tail(rest), Tail(answers))
           [] Head(answers) = "a" ->
                  add_all_ingredients_to_list(sl, recipe_items)
           [] OTHER ->
                  add_recipe_loop(sl, recipe_items, Tail(rest), Tail(answers))

\* list::add_recipe_to_list
add_recipe_to_list(sl, name, recipe_items, answers) ==
    add_recipe_loop([sl EXCEPT !.recipes = Append(@, name)],
                    recipe_items, recipe_items, answers)

\* list::add_grocery_section_to_list: an item is asked about only when its
\* lower-cased name is not on the list.
RECURSIVE add_grocery_section_to_list(_, _, _)
add_grocery_section_to_list(sl, items_of_section, answers) ==
    IF items_of_section = <<>>
    THEN sl
    ELSE IF InSeq(to_lowercase(Head(items_of_section)), sl.items)
    THEN add_grocery_section_to_list(sl, Tail(items_of_section), answers)
    ELSE CASE Head(answers) = "y" ->
                  add_grocery_section_to_list(
                      [sl EXCEPT !.items = Append(@, to_lowercase(Head(items_of_section)))],
                      Tail(items_of_section), Tail(answers))
           [] Head(answers) = "c" ->
                  add_grocery_section_to_list(
                      add_ingredient_to_checklist(sl, Head(items_of_section)),
                      Tail(items_of_section), Tail(answers))
           [] Head(answers) = "s" -> sl
           [] OTHER ->
                  add_grocery_section_to_list(sl, Tail(items_of_section), Tail(answers))

\* The lists of the model stay within MaxList entries.
WithinList(sl) ==
    /\ Len(sl.items) <= MaxList
    /\ Len(sl.checklist) <= MaxList
    /\ Len(sl.recipes) <= MaxList

\* shopping_list = f(shopping_list, ..)?
ListStep(op, sl) ==
    /\ WithinList(sl)
    /\ shopping_list' = sl
    /\ call' = Call(op, <<>>, <<>>)
    /\ ret' = Ok
    /\ UNCHANGED <<sections, collection, recipes, pc, pending, before, prompts, file>>

AddIngredientToList(ingredient) ==
    ListStep("add_ingredient_to_list", add_ingredient_to_list(shopping_list, ingredient))

AddAllIngredientsToList(recipe_items) ==
    ListStep("add_all_ingredients_to_list",
             add_all_ingredients_to_list(shopping_list, recipe_items))

AddRecipeToList(name, recipe_items, answers) ==
    ListStep("add_recipe_to_list",
             add_recipe_to_list(shopping_list, name, recipe_items, answers))

AddGrocerySectionToList(items_of_section, answers) ==
    ListStep("add_grocery_section_to_list",
             add_grocery_section_to_list(shopping_list, items_of_section, answers))

ListNext ==
    \/ \E ingredient \in ListNames : AddIngredientToList(ingredient)
    \/ \E recipe_items \in ListItems : AddAllIngredientsToList(recipe_items)
    \/ \E name \in RecipeNames, recipe_items \in ListItems :
          \E answers \in Answers(recipe_items) : AddRecipeToList(name, recipe_items, answers)
    \/ \E items_of_section \in ListItems :
          \E answers \in Answers(items_of_section) :
              AddGrocerySectionToList(items_of_section, answers)

\* ShoppingList::new()
ListSpec == Init /\ [][ListNext]_vars

(***************************************************************************)
(* groceries::update_groceries of src/src/lib.rs: one confirmed iteration  *)
(* reads groceries.json, asks about each section, and writes the result.   *)
(***************************************************************************)
\* A data::GroceriesSection
Section(n, l) == [name |-> n, items |-> l]

GroceriesSectionInputs == {Section(n, l) : n \in SectionNames, l \in ItemLists}

GroceriesSectionLists ==
    UNION {[1..n -> GroceriesSectionInputs] : n \in 0..MaxSections}

\* Serialize of a GroceriesSection: name, then items.
ser_section(sec) ==
    JObject(<< <<"name", JString(sec.name)>>, <<"items", ser_strings(sec.items)>> >>)

\* serde_json::to_string of a Vec<GroceriesSection>: an array.
ser_sections(secs) == JArray([i \in 1..Len(secs) |-> ser_section(secs[i])])

\* serde_json::to_string of a data::Groceries: an object with one field.
ser_groceries(secs) == JObject(<< <<"sections", ser_sections(secs)>> >>)

SectionFields == <<"name", "items">>

is_section(j) ==
    /\ is_struct(j, SectionFields)
    /\ field(j, SectionFields, 1).kind = "string"
    /\ is_strings(field(j, SectionFields, 2))

de_section(j) ==
    Section(field(j, SectionFields, 1).val, de_strings(field(j, SectionFields, 2)))

\* helpers::read_groceries: read(path)?, then from_reader into data::Groceries
read_groceries(f) ==
    IF f = NoFile
    THEN Err("PathError")
    ELSE IF ~(/\ is_struct(f, <<"sections">>)
              /\ field(f, <<"sections">>, 1).kind = "array"
              /\ \A i \in 1..Len(field(f, <<"sections">>, 1).val) :
                    is_section(field(f, <<"sections">>, 1).val[i]))
    THEN Err("DeserializingError")
    ELSE [status |-> "Ok",
          value |-> [i \in 1..Len(field(f, <<"sections">>, 1).val) |->
                        de_section(field(f, <<"sections">>, 1).val[i])]]

\* The groceries.json found by the first iteration.
GroceriesFiles == {NoFile} \cup {ser_groceries(secs) : secs \in GroceriesSectionLists}

\* What prompt_for_y() reads for each of n sections, and the line list_input
\* reads for a section after "y".
SectionAnswers(n) == [1..n -> {"y", "n"}]

SectionTexts(n) == [1..n -> Texts]

\* update_groceries_sections with the items of a confirmed section replaced.
update_groceries_sections_replace(secs, answers, texts) ==
    [k \in 1..Len(secs) |->
        IF answers[k] = "y"
        THEN Section(secs[k].name, list_input(<<>>, texts[k]))
        ELSE secs[k]]

\* groceries::update_groceries_sections
update_groceries_sections(secs, answers, texts) ==
    [k \in 1..Len(secs) |->
        IF answers[k] = "y"
        THEN Section(secs[k].name, list_input(secs[k].items, texts[k]))
        ELSE secs[k]]

UpdateInit ==
    /\ sections = <<>>
    /\ collection = <<>>
    /\ recipes = <<>>
    /\ pc = "idle"
    /\ pending = <<>>
    /\ before = <<>>
    /\ file \in GroceriesFiles
    /\ shopping_list = NewShoppingList
    /\ prompts = 0
    /\ call = Call("update_groceries", <<>>, <<>>)
    /\ ret = Ok

\* One iteration of the while loop of update_groceries, the user having
\* answered "y". call holds the sections read, the answers and the lines
\* entered; ret holds what update_groceries_sections returned.
UpdateGroceries(groceries, answers, texts) ==
    LET updated == update_groceries_sections(groceries.value, answers, texts)
    IN  /\ groceries = read_groceries(file)
        /\ IF groceries.status # "Ok"
           THEN /\ call' = Call("read_groceries", <<>>, <<>>)
                /\ ret' = Err(groceries.status)
                /\ UNCHANGED file
           ELSE /\ call' = [Call("update_groceries_sections", answers, texts)
                               EXCEPT !.list = groceries.value]
                /\ ret' = [status |-> "Ok", value |-> updated]
                /\ file' = ser_sections(updated)
        /\ UNCHANGED <<sections, collection, recipes, pc, pending, before, prompts,
                       shopping_list>>

UpdateNext ==
    LET groceries == read_groceries(file)
        n == IF groceries.status = "Ok" THEN Len(groceries.value) ELSE 0
    IN  \E answers \in SectionAnswers(n), texts \in SectionTexts(n) :
            UpdateGroceries(groceries, answers, texts)

UpdateSpec == UpdateInit /\ [][UpdateNext]_vars

(***************************************************************************)
(* Properties.                                                             *)
(***************************************************************************)
Identifiers(text) == from_input_string(text).value

NoDuplicates(s) == \A i, j \in 1..Len(s) : s[i] = s[j] => i = j

\* C1: after a successful add_recipe(R, T), every item named by an identifier
\* of T lists R in its recipes and is flagged, and R is in the recipe list.
C1_AddRecipeLinks ==
    (call.op = "add_recipe" /\ ret.status = "Ok") =>
        /\ InSeq(call.name, recipes)
        /\ \A i \in 1..Len(collection) :
              InSeq(collection[i].name, Identifiers(call.text)) =>
                  /\ InSeq(call.name, collection[i].recipes)
                  /\ collection[i].is_recipe_ingredient = TRUE

C1_Witness ==
    /\ call.op = "add_recipe"
    /\ ret.status = "Ok"
    /\ \E i \in 1..Len(collection) :
          /\ InSeq(collection[i].name, Identifiers(call.text))
          /\ collection[i].recipes = <<call.name>>

\* C2: delete_recipe(R) with R in the recipe list leaves R neither in the
\* recipe list nor in any item's recipes, and unflags the items it emptied.
C2_DeleteRecipeClears ==
    [][\A R \in RecipeNames :
          (DeleteRecipe(R) /\ InSeq(R, recipes)) =>
              /\ ~InSeq(R, recipes')
              /\ \A k \in 1..Len(collection') : ~InSeq(R, collection'[k].recipes)
              /\ \A k \in 1..Len(collection') :
                    (collection[k].recipes # <<>> /\ collection'[k].recipes = <<>>) =>
                        collection'[k].is_recipe_ingredient = FALSE]_vars

\* C3: delete_recipe(R) with R not in the recipe list still leaves no item
\* listing R, and unflags the items it emptied.
C3_CascadeClears ==
    [][\A R \in RecipeNames :
          (DeleteRecipe(R) /\ ~InSeq(R, recipes)) =>
              /\ \A k \in 1..Len(collection') : ~InSeq(R, collection'[k].recipes)
              /\ \A k \in 1..Len(collection') :
                    (collection[k].recipes # <<>> /\ collection'[k].recipes = <<>>) =>
                        collection'[k].is_recipe_ingredient = FALSE]_vars

\* C4: delete_item(N) with some item named N removes the first item named N
\* and nothing else: the other items keep their fields and order, and the
\* recipe list and the sections are unchanged.
C4_DeleteItemFrame ==
    [][\A N \in ItemNames :
          (DeleteItem(N) /\ InSeq(N, Names(collection))) =>
              /\ Len(collection') = Len(collection) - 1
              /\ \E i \in 1..Len(collection) :
                    /\ collection[i].name = N
                    /\ \A j \in 1..(i - 1) :
                          collection[j].name # N /\ collection'[j] = collection[j]
                    /\ \A j \in i..Len(collection') : collection'[j] = collection[j + 1]
              /\ recipes' = recipes
              /\ sections' = sections]_vars

\* The deleted name is still the name of an item: the catalog held it twice.
C4_Witness ==
    /\ call.op = "delete_item"
    /\ InSeq(call.name, Names(collection))
    /\ recipes # <<>>

\* C5: delete_item(N) with no item named N returns ItemNotFound and leaves
\* the catalog unchanged.
C5_DeleteItemNotFound ==
    [][\A N \in ItemNames :
          (DeleteItem(N) /\ ~InSeq(N, Names(collection))) =>
              /\ ret'.status = "ItemNotFound"
              /\ UNCHANGED <<sections, collection, recipes>>]_vars

\* C6: delete_recipe(R) with R not in the recipe list returns ItemNotFound.
C6_DeleteRecipeNotFound ==
    [][\A R \in RecipeNames :
          (DeleteRecipe(R) /\ ~InSeq(R, recipes)) => ret'.status = "ItemNotFound"]_vars

\* C7 (I3): every item is flagged as a recipe ingredient exactly when its
\* recipes list is not empty.
C7_FlagIffRecipes ==
    \A i \in 1..Len(collection) : FlagAgrees(collection[i])

\* A recipe was deleted, leaving one item without recipes and one with.
C7_Witness ==
    /\ call.op = "delete_recipe"
    /\ \E i, j \in 1..Len(collection) :
          /\ collection[i].recipes = <<>>
          /\ collection[j].recipes # <<>>

\* C8 (I1): no two items of the collection have the same name.
C8_UniqueItemNames == NoDuplicates(Names(collection))

\* C9 (I2): no recipe name occurs twice in the recipe list.
C9_UniqueRecipeNames == NoDuplicates(recipes)

\* An identifier is normal: no upper-case letter, no comma, no space at
\* either end.  It is the normal form of a phrase when the phrase is the
\* identifier, up to letter case, between two runs of spaces.
IsNormal(id) ==
    /\ \A k \in 1..Len(id) : id[k] \notin {"A", ","}
    /\ id # <<>> => (id[1] # " " /\ id[Len(id)] # " ")

IsNormalOf(id, phrase) ==
    /\ IsNormal(id)
    /\ \E i \in 0..Len(phrase) :
          /\ i + Len(id) <= Len(phrase)
          /\ \A k \in 1..i : phrase[k] = " "
          /\ \A k \in (i + Len(id) + 1)..Len(phrase) : phrase[k] = " "
          /\ \A k \in 1..Len(id) : LowerChar(phrase[i + k]) = id[k]

\* The first phrase of which id is the normal form.
FirstPhrase(id, phrases) ==
    CHOOSE p \in 1..Len(phrases) :
        /\ IsNormalOf(id, phrases[p])
        /\ \A q \in 1..(p - 1) : ~IsNormalOf(id, phrases[q])

\* out holds the normal form of every phrase (the empty ones too when
\* keepEmpty), each once, in the order of their first phrases.
IsParseOf(out, text, keepEmpty) ==
    LET phrases == split(text)
    IN  /\ NoDuplicates(out)
        /\ \A k \in 1..Len(out) : \E p \in 1..Len(phrases) : IsNormalOf(out[k], phrases[p])
        /\ \A p \in 1..Len(phrases) :
              \E k \in 1..Len(out) : IsNormalOf(out[k], phrases[p])
              \/ (~keepEmpty /\ IsNormalOf(<<>>, phrases[p]))
        /\ keepEmpty \/ \A k \in 1..Len(out) : out[k] # <<>>
        /\ \A k, m \in 1..Len(out) :
              k < m => FirstPhrase(out[k], phrases) < FirstPhrase(out[m], phrases)

\* C10: the identifiers parsed from a text are its phrases trimmed and
\* lower-cased, none twice, in the order of first occurrence; list_input
\* on an empty list builds the same from all the phrases.
C10_ParseDedupOrdered ==
    /\ (call.op = "from_input_string" /\ ret.status = "Ok") =>
           IsParseOf(ret.value, call.text, FALSE)
    /\ (call.op = "list_input" /\ call.list = <<>>) =>
           IsParseOf(ret.value, call.text, TRUE)

\* A text whose phrases repeat an identifier in another spelling, after
\* another identifier: "b,A,a" gives b, a.
C10_Witness ==
    /\ call.op = "list_input"
    /\ call.list = <<>>
    /\ Len(split(call.text)) = 3
    /\ Len(ret.value) = 2
    /\ ret.value[1] # <<>> /\ ret.value[2] # <<>>

\* A text none of whose comma-separated phrases holds anything but spaces.
ZeroIdentifiers(text) ==
    \A k \in 1..Len(split(text)) :
        \A c \in 1..Len(split(text)[k]) : split(text)[k][c] = " "

\* C11: for every text that reduces to zero identifiers the parser fails with
\* EmptyInput, and add_recipe and check_recipe_ingredients, called with such a
\* text, return that same error to their caller.
C11_EmptyInputReturned ==
    (/\ call.op \in {"from_input_string", "add_recipe", "check_recipe_ingredients"}
     /\ ZeroIdentifiers(call.text)) => ret = Err("EmptyInput")

C11_Witness ==
    /\ call.op \in {"add_recipe", "check_recipe_ingredients"}
    /\ ZeroIdentifiers(call.text)
    /\ InSeq(",", call.text)
    /\ InSeq(" ", call.text)
    /\ ret = Err("EmptyInput")

\* C12: when add_recipe or check_recipe_ingredients returns an error because
\* its text fails to parse, the catalog is exactly as before the call: no flag
\* or recipes sequence changed, no item added, the recipe list unchanged.
C12_ParseErrorNoChange ==
    [][(/\ Parsed[call'.text].status # "Ok"
        /\ \/ call'.op = "add_recipe" /\ AddRecipe(call'.name, call'.text)
           \/ call'.op = "check_recipe_ingredients" /\ CheckRecipeIngredients(call'.text)) =>
              /\ ret' = Err(Parsed[call'.text].status)
              /\ UNCHANGED <<sections, collection, recipes>>]_vars

C12_Witness ==
    /\ call.op \in {"add_recipe", "check_recipe_ingredients"}
    /\ ret = Err("EmptyInput")
    /\ recipes # <<>>
    /\ \E i \in 1..Len(collection) : collection[i].recipes # <<>>

\* C13: no operation leaves the catalog partially changed after returning an
\* error: when check_recipe_ingredients returns an error because reading the
\* user's section input fails, no item created earlier in that call remains.
C13_ErrorLeavesNoItems ==
    (call.op = "check_recipe_ingredients" /\ ret.status \notin {"Ok", "Pending"}) =>
        collection = before

\* The items a check_recipe_ingredients call has added so far.
Created == SubSeq(collection, Len(before) + 1, Len(collection))

\* The place of identifier x in the sequence ids (0 when it is not there).
IndexIn(x, ids) == IF InSeq(x, ids) THEN CHOOSE k \in 1..Len(ids) : ids[k] = x ELSE 0

\* C14: after check_recipe_ingredients(T) returns successfully every identifier
\* of parse(T) is the name of an item, and for each identifier that named no
\* item before the call exactly one item was appended, in parse order, with
\* is_recipe_ingredient false and no recipes.
C14_CheckCreatesMissing ==
    (call.op = "check_recipe_ingredients" /\ ret = Ok) =>
        LET ids == Parsed[call.text].value
        IN  /\ \A k \in 1..Len(ids) : InSeq(ids[k], Names(collection))
            /\ Len(collection) >= Len(before)
            /\ Len(Created) =
                  Cardinality({k \in 1..Len(ids) : ~InSeq(ids[k], Names(before))})
            /\ \A p \in 1..Len(Created) :
                  /\ InSeq(Created[p].name, ids)
                  /\ ~InSeq(Created[p].name, Names(before))
                  /\ Created[p].is_recipe_ingredient = FALSE
                  /\ Created[p].recipes = <<>>
                  /\ \A q \in (p + 1)..Len(Created) :
                        IndexIn(Created[p].name, ids) < IndexIn(Created[q].name, ids)

C14_Witness ==
    /\ call.op = "check_recipe_ingredients"
    /\ ret = Ok
    /\ Len(Parsed[call.text].value) = 2
    /\ \/ before # <<>> /\ Len(Created) = 1
       \/ Len(Created) = 2

\* A step of a check_recipe_ingredients call: its start, or an input read.
CheckStep ==
    \/ call'.op = "check_recipe_ingredients" /\ CheckRecipeIngredients(call'.text)
    \/ pc = "prompt" /\ \E input \in UserInputs : GetUserInput(input)
    \/ pc = "prompt" /\ GetUserInputFails

\* C15: check_recipe_ingredients leaves every item that was there before the
\* call as it was (position, name, section, flag, recipes), leaves the recipe
\* list and the sections as they were, and links no item to a recipe, not even
\* the items it creates.
C15_CheckKeepsExisting ==
    /\ [](call.op = "check_recipe_ingredients" =>
            /\ Len(collection) >= Len(before)
            /\ SubSeq(collection, 1, Len(before)) = before
            /\ \A p \in 1..Len(Created) :
                  Created[p].recipes = <<>> /\ ~Created[p].is_recipe_ingredient)
    /\ [][CheckStep =>
            /\ recipes' = recipes
            /\ sections' = sections
            /\ \A k \in 1..Len(collection) :
                  k <= Len(collection') /\ collection'[k] = collection[k]]_vars

C15_Witness ==
    /\ call.op = "check_recipe_ingredients"
    /\ ret = Ok
    /\ Created # <<>>
    /\ recipes # <<>>
    /\ \E k \in 1..Len(before) : before[k].recipes # <<>> /\ collection[k] = before[k]

\* C16: add_recipe never creates or removes an item: the sequence of item names
\* and sections is the same before and after, and every item whose name is not
\* exactly equal to a parsed identifier is completely unchanged (an identifier
\* that names no item produces none; a name that only resembles an identifier
\* is not linked).
C16_AddRecipeKeepsItems ==
    [][(call'.op = "add_recipe" /\ AddRecipe(call'.name, call'.text)) =>
          /\ Len(collection') = Len(collection)
          /\ \A k \in 1..Len(collection) :
                /\ collection'[k].name = collection[k].name
                /\ collection'[k].section = collection[k].section
                /\ ~InSeq(collection[k].name, Parsed[call'.text].value) =>
                       collection'[k] = collection[k]]_vars

C16_Witness ==
    /\ call.op = "add_recipe"
    /\ ret = Ok
    /\ \E k \in 1..Len(Parsed[call.text].value) :
          ~InSeq(Parsed[call.text].value[k], Names(collection))
    /\ \E k \in 1..Len(collection) :
          /\ ~InSeq(collection[k].name, Parsed[call.text].value)
          /\ InSeq(to_lowercase(collection[k].name), Parsed[call.text].value)
          /\ collection[k].recipes = <<>>

\* C17: every successful add_recipe(R, T) appends R as the last entry of the
\* recipe list, which grows by exactly one, whether or not an item matched and
\* whether or not R was in the list; every matched item's recipes grow by R
\* likewise, so a second call with the same R leaves R twice in both.
C17_AddRecipeAppends ==
    [][(/\ call'.op = "add_recipe"
        /\ Parsed[call'.text].status = "Ok"
        /\ AddRecipe(call'.name, call'.text)) =>
          /\ ret' = Ok
          /\ recipes' = Append(recipes, call'.name)
          /\ \A k \in 1..Len(collection) :
                InSeq(collection[k].name, Parsed[call'.text].value) =>
                    collection'[k].recipes = Append(collection[k].recipes, call'.name)]_vars

C17_Witness ==
    /\ call.op = "add_recipe"
    /\ call.name = <<"s">>
    /\ ret = Ok
    /\ recipes = <<call.name, call.name>>
    /\ \E k \in 1..Len(collection) : collection[k].recipes = <<call.name, call.name>>
    /\ \E k \in 1..Len(collection) : ~InSeq(collection[k].name, Parsed[call.text].value)

IsPrefix(s, t) == Len(s) <= Len(t) /\ SubSeq(t, 1, Len(s)) = s

\* The entries of s other than x, in their order.
Without(s, x) == SelectSeq(s, LAMBDA y : y # x)

\* C18: add_recipe never removes or reorders an entry of an item's recipes or
\* of the recipe list; delete_recipe(R) never removes a back-reference or a
\* list entry of a recipe other than R, and never adds, removes or reorders
\* items.
C18_LinksKept ==
    [][/\ (call'.op = "add_recipe" /\ AddRecipe(call'.name, call'.text)) =>
             /\ IsPrefix(recipes, recipes')
             /\ Len(collection') = Len(collection)
             /\ \A k \in 1..Len(collection) :
                   IsPrefix(collection[k].recipes, collection'[k].recipes)
       /\ (call'.op = "delete_recipe" /\ DeleteRecipe(call'.name)) =>
             /\ Without(recipes', call'.name) = Without(recipes, call'.name)
             /\ Len(collection') = Len(collection)
             /\ \A k \in 1..Len(collection) :
                   /\ collection'[k].name = collection[k].name
                   /\ collection'[k].section = collection[k].section
                   /\ Without(collection'[k].recipes, call'.name) =
                          Without(collection[k].recipes, call'.name)]_vars

C18_Witness ==
    /\ call.op = "delete_recipe"
    /\ Len(collection) = 2
    /\ Without(recipes, call.name) # <<>>
    /\ \E k \in 1..Len(collection) :
          /\ Without(collection[k].recipes, call.name) # <<>>
          /\ Len(collection[k].recipes) < MaxRecipes

\* The (section index, item index) pairs of items() that match.
SectionHits ==
    {p \in (1..Len(sections)) \X (1..Len(collection)) :
        in_section(collection[p[2]], sections[p[1]])}

\* The place in the output of items() of item i under section s: after every
\* match of an earlier section, and after the earlier matches of section s.
PlaceOf(s, i) ==
    Cardinality({p \in SectionHits : p[1] < s \/ (p[1] = s /\ p[2] <= i)})

\* C19: items() yields, section after section in the order of sections, the
\* items that match the section, in collection order within each group; an
\* item that matches k sections is emitted k times and one that matches none
\* is not emitted.
C19_ItemsBySection ==
    call.op = "items" =>
        /\ ret.status = "Ok"
        /\ Len(ret.value) = Cardinality(SectionHits)
        /\ \A p \in SectionHits : ret.value[PlaceOf(p[1], p[2])] = collection[p[2]]

C19_Witness ==
    /\ call.op = "items"
    /\ Len(sections) = 2
    /\ sections[1] # sections[2]
    /\ Len(collection) = 2
    /\ Cardinality({p \in SectionHits : p[2] = 1}) = 1
    /\ Cardinality({p \in SectionHits : p[2] = 2}) = 2
    /\ Len(ret.value) = 3

\* The indices of the items whose name contains the fragment.
NameHits(name) == {i \in 1..Len(collection) : contains(collection[i].name, name)}

\* C20: get_item_matches(fragment) returns, in collection order, exactly the
\* items whose name contains the fragment as a case-sensitive substring, the
\* empty sequence when there is none, and never changes the catalog.
C20_ItemMatches ==
    /\ [](call.op = "get_item_matches" =>
            /\ ret.status = "Ok"
            /\ Len(ret.value) = Cardinality(NameHits(call.name))
            /\ \A i \in NameHits(call.name) :
                  ret.value[Cardinality({j \in NameHits(call.name) : j <= i})] = collection[i])
    /\ [][(\E name \in Fragments : GetItemMatches(name)) =>
              UNCHANGED <<sections, collection, recipes>>]_vars

C20_Witness ==
    /\ call.op = "get_item_matches"
    /\ call.name = <<"a">>
    /\ Len(collection) = 2
    /\ collection[1].name = <<"A">>
    /\ collection[2].name = <<"a", "b">>
    /\ ret.value = <<collection[2]>>

\* C21: for every catalog, the new one included, save followed by from_path
\* of the same path returns a catalog equal to it: the same sections, items
\* (name, section, flag, recipes) and recipes, in the same order.
C21_SaveLoadRoundTrip ==
    [][(call.op = "save" /\ call'.op = "from_path" /\ FromPath) =>
          /\ ret' = Ok
          /\ UNCHANGED <<sections, collection, recipes>>]_vars

C21_Witness ==
    /\ call.op = "from_path"
    /\ ret = Ok
    /\ file \notin InitialFiles
    /\ file = to_string(Catalog(sections, collection, recipes))
    /\ sections # <<>>
    /\ recipes # <<>>
    /\ Len(collection) = 2
    /\ collection[1].is_recipe_ingredient /\ ~collection[2].is_recipe_ingredient

\* The options of the section prompt.
SectionOption ==
    [input \in {"1", "2", "3", "4", "5"} |->
        CASE input = "1" -> <<"f", "r", "e", "s", "h">>
          [] input = "2" -> <<"p", "a", "n", "t", "r", "y">>
          [] input = "3" -> <<"p", "r", "o", "t", "e", "i", "n">>
          [] input = "4" -> <<"d", "a", "i", "r", "y">>
          [] input = "5" -> <<"f", "r", "e", "e", "z", "e", "r">>]

\* C22: in check_recipe_ingredients the section prompt is repeated after every
\* input other than "1" to "5" and no item is created from such an input; the
\* first valid input creates the item with exactly the option it selects (1
\* fresh, 2 pantry, 3 protein, 4 dairy, 5 freezer); so every item the call
\* creates has one of these five sections.
C22_SectionPrompt ==
    /\ [](call.op = "check_recipe_ingredients" =>
            \A p \in 1..Len(Created) :
                \E input \in DOMAIN SectionOption : Created[p].section = SectionOption[input])
    /\ [][\A input \in AllUserInputs :
             (pc = "prompt" /\ GetUserInput(input)) =>
                 IF input \in DOMAIN SectionOption
                 THEN /\ Len(collection') = Len(collection) + 1
                      /\ collection'[Len(collection')].name = Head(pending)
                      /\ collection'[Len(collection')].section = SectionOption[input]
                      /\ pending' # pending
                 ELSE /\ collection' = collection
                      /\ pc' = "prompt"
                      /\ pending' = pending
                      /\ prompts' = prompts + 1]_vars

C22_Witness ==
    /\ call.op = "check_recipe_ingredients"
    /\ ret = Ok
    /\ prompts = 3
    /\ Len(Created) = 2
    /\ Created[1].section = <<"f", "r", "e", "e", "z", "e", "r">>
    /\ Created[2].section = <<"p", "a", "n", "t", "r", "y">>

\* C24: when reading never fails and the user in the end enters a valid choice
\* for each new ingredient, check_recipe_ingredients returns Ok; each input it
\* reads answers one prompt (one per invalid input and one per new ingredient),
\* and it never returns Ok while an identifier of the text names no item.
C24_CheckTerminates ==
    /\ (pc = "prompt") ~> (pc = "idle" /\ call.op = "check_recipe_ingredients" /\ ret = Ok)
    /\ []((call.op = "check_recipe_ingredients" /\ ret = Ok) =>
            /\ pc = "idle"
            /\ \A k \in 1..Len(Parsed[call.text].value) :
                  InSeq(Parsed[call.text].value[k], Names(collection))
            /\ prompts >= Len(Created))
    /\ []((call.op = "check_recipe_ingredients" /\ pc = "prompt") =>
            /\ prompts >= Len(Created) + 1
            /\ ~InSeq(Head(pending), Names(collection)))
    /\ [][\A input \in AllUserInputs :
             (pc = "prompt" /\ GetUserInput(input)) =>
                 \/ prompts' = prompts + 1 /\ pc' = "prompt"
                 \/ prompts' = prompts /\ pc' = "idle" /\ input \in ValidInputs]_vars

C24_Witness ==
    /\ call.op = "check_recipe_ingredients"
    /\ ret = Ok
    /\ pc = "idle"
    /\ prompts = MaxPrompts
    /\ Len(Created) = 1

\* C25: for a recipe R linked to no item, check_recipe_ingredients(T) followed
\* by add_recipe(R, T) makes recipe_ingredients(R) yield, in collection order,
\* exactly the items named by the identifiers of T, each one flagged, and every
\* identifier names one of them; when add_recipe runs first, the items the
\* check creates are not among the ingredients of any recipe.
C25_CheckThenAddRecipe ==
    /\ [][(/\ call.op = "check_recipe_ingredients"
           /\ ret = Ok
           /\ call'.op = "add_recipe"
           /\ call'.text = call.text
           /\ recipe_ingredients(collection, call'.name) = <<>>
           /\ AddRecipe(call'.name, call'.text)) =>
              LET ids == Parsed[call.text].value
                  out == recipe_ingredients(collection', call'.name)
              IN  /\ out = SelectSeq(collection', LAMBDA item : InSeq(item.name, ids))
                  /\ \A k \in 1..Len(out) : out[k].is_recipe_ingredient
                  /\ \A k \in 1..Len(ids) : InSeq(ids[k], Names(out))]_vars
    /\ [](call.op = "check_recipe_ingredients" =>
            \A R \in RecipeNames, p \in 1..Len(Created) :
                ~InSeq(Created[p], recipe_ingredients(collection, R)))

C25_Witness ==
    /\ call.op = "add_recipe"
    /\ ret = Ok
    /\ Len(Parsed[call.text].value) = 2
    /\ Len(recipe_ingredients(collection, call.name)) = 2
    /\ \A k \in 1..2 :
          /\ InSeq(collection[k].name, Parsed[call.text].value)
          /\ collection[k].recipes = <<call.name>>
    /\ collection[1].section # collection[2].section

\* The recipe list as the add_recipe call that has just returned found it.
ListBefore == IF ret = Ok THEN SubSeq(recipes, 1, Len(recipes) - 1) ELSE recipes

\* C26: on a catalog whose items all satisfy I3 and in which R is neither in
\* the recipe list nor in any item's recipes, add_recipe(R, T) followed by
\* delete_recipe(R) gives back the same catalog: the same items, flags,
\* back-references and recipe list, in the same order.
C26_AddDeleteRoundTrip ==
    [][(/\ call.op = "add_recipe"
        /\ call'.op = "delete_recipe"
        /\ call'.name = call.name
        /\ \A k \in 1..Len(before) :
              FlagAgrees(before[k]) /\ ~InSeq(call.name, before[k].recipes)
        /\ ~InSeq(call.name, ListBefore)
        /\ DeleteRecipe(call'.name)) =>
           /\ collection' = before
           /\ recipes' = ListBefore
           /\ sections' = sections]_vars

C26_Witness ==
    /\ call.op = "delete_recipe"
    /\ ~InSeq(call.name, recipes)
    /\ recipes # <<>>
    /\ Len(collection) = 2
    /\ \A k \in 1..2 : FlagAgrees(collection[k]) /\ ~InSeq(call.name, collection[k].recipes)
    /\ collection[1].recipes # <<>>
    /\ collection[2].recipes = <<>>

\* sub occurs in s, character by character, at some offset.
IsSubstring(sub, s) ==
    \E off \in 0..(Len(s) - Len(sub)) : \A j \in 1..Len(sub) : s[off + j] = sub[j]

Occurrences(x, s) == Cardinality({k \in 1..Len(s) : s[k] = x})

\* C27: items() matches in one direction: an item is emitted under a section
\* if and only if the section's name is a substring of the item's section
\* value (equal values match); an item whose section value is only a proper
\* part of the section's name is not emitted under it.
C27_SectionNameInItemSection ==
    call.op = "items" =>
        \A x \in ViewItems :
            Occurrences(x, ret.value) =
                Cardinality({p \in (1..Len(sections)) \X (1..Len(collection)) :
                                collection[p[2]] = x /\ IsSubstring(sections[p[1]], x.section)})

C27_Witness ==
    /\ call.op = "items"
    /\ sections = <<fresh, dairy>>
    /\ Len(collection) = 2
    /\ collection[1].section = <<"f", "r">>
    /\ collection[2].section = fresh \o <<" ">> \o dairy
    /\ ret.value = <<collection[2], collection[2]>>

\* C23: starting from a new ShoppingList, after any sequence of
\* add_ingredient_to_list, add_all_ingredients_to_list and
\* add_grocery_section_to_list steps, the items of the shopping list never
\* hold two equal entries.
C23_ListDeduplicated == NoDuplicates(shopping_list.items)

\* The place of the first "a" among the answers (0 when there is none).
FirstAll(answers) ==
    IF \E k \in 1..Len(answers) : answers[k] = "a"
    THEN CHOOSE k \in 1..Len(answers) :
             answers[k] = "a" /\ \A j \in 1..(k - 1) : answers[j] # "a"
    ELSE 0

\* The name is on the list, as it is or lower-cased.
OnList(name, listed) == InSeq(name, listed) \/ InSeq(to_lowercase(name), listed)

\* C29: in add_recipe_to_list, "a" at an ingredient adds that ingredient and
\* the ingredients after it to the items of the shopping list; an ingredient
\* asked about earlier and answered with a key other than "y" is not added by
\* it (unless it was on the list, or is also asked about later).
C29_AllAddsRemaining ==
    [][\A name \in RecipeNames, recipe_items \in ListItems :
          \A answers \in Answers(recipe_items) :
              (/\ call'.op = "add_recipe_to_list"
               /\ FirstAll(answers) # 0
               /\ AddRecipeToList(name, recipe_items, answers)) =>
                  LET k == FirstAll(answers)
                  IN  /\ \A j \in k..Len(recipe_items) :
                            OnList(recipe_items[j], shopping_list'.items)
                      /\ \A j \in 1..(k - 1) :
                            (/\ answers[j] # "y"
                             /\ ~OnList(recipe_items[j], shopping_list.items)
                             /\ \A i \in 1..Len(recipe_items) :
                                   (i >= k \/ answers[i] = "y") =>
                                       to_lowercase(recipe_items[i]) #
                                           to_lowercase(recipe_items[j])) =>
                                ~OnList(recipe_items[j], shopping_list'.items)]_vars

\* C28: the document update_groceries writes at the end of a confirmed
\* iteration has the structure read_groceries loads, an object with a
\* sections field, so that the next read_groceries succeeds and returns the
\* sections as just updated.
C28_WrittenIsReadable ==
    (call.op = "update_groceries_sections" /\ ret.status = "Ok") =>
        /\ file.kind = "object"
        /\ read_groceries(file) = [status |-> "Ok", value |-> ret.value]

\* C30: update_groceries_sections returns as many sections as it was given,
\* in the same order and with the same names; a section the user does not
\* confirm keeps its items; a confirmed section keeps its items, in their
\* order, as a prefix and gains only trimmed, lower-cased entries that it did
\* not hold.
C30_SectionsKept ==
    [][(/\ call'.op = "update_groceries_sections"
        /\ UpdateGroceries(read_groceries(file), call'.name, call'.text)) =>
              LET given == call'.list
                  answers == call'.name
                  texts == call'.text
                  out == ret'.value
              IN  /\ Len(out) = Len(given)
                  /\ \A k \in 1..Len(given) :
                        /\ out[k].name = given[k].name
                        /\ answers[k] # "y" => out[k].items = given[k].items
                        /\ IsPrefix(given[k].items, out[k].items)
                        /\ \A e \in (Len(given[k].items) + 1)..Len(out[k].items) :
                              /\ IsNormal(out[k].items[e])
                              /\ \A d \in 1..(e - 1) : out[k].items[d] # out[k].items[e]
                              /\ \E p \in 1..Len(split(texts[k])) :
                                    IsNormalOf(out[k].items[e], split(texts[k])[p])]_vars

C30_Witness ==
    /\ call.op = "update_groceries_sections"
    /\ ret.status = "Ok"
    /\ Len(call.list) = 2
    /\ ret.value[1] = call.list[1]
    /\ call.list[2].items = <<<<"a">>>>
    /\ ret.value[2].items = <<<<"a">>, <<"b">>>>

====
